---- MODULE Spec2Model ----
(***************************************************************************)
(* Model of aux/mig202204_runtimeCSV.py: the one-shot migration that       *)
(* rewrites every *-runtime.csv file of a testsuite tree from the old to   *)
(* the new column order.                                                   *)
(*                                                                         *)
(* Text is modelled as a sequence of atoms: the delimiter ",", the literal *)
(* quote character, and indivisible chunks of other text.  A file is a     *)
(* sequence of lines (each terminated by "\n"), a line a sequence of atoms.*)
(* The csv reader and writer are modelled by what they do to such lines    *)
(* (QUOTE_NONE: split at / join with the delimiter, quotes untouched).     *)
(* The writer is the one of the interpreters the script was written for    *)
(* (CPython up to 3.10), which accept quotechar=''.                        *)
(***************************************************************************)
EXTENDS Integers, Sequences, FiniteSets, TLC

\* ---------------------------------------------------------------- bounds
MaxRows == 2
MaxRuns == 2

\* --------------------------------------------------------- configuration
QUOTE == "\""
DELIM == ","

SRCPATTERNS == <<"*", "-runtime.csv">>

OLD_HEADLINE ==
  <<"Timestamp", "Runtime ms", "Samples count", "Notes count", "Platform ms",
    "Expense Factor", "Expense Factor(current)", "Delta ms", "MA Time short",
    "Tolerance">>

NEW_HEADLINE ==
  <<"Timestamp", "Runtime ms", "MA Time", "Samples", "Notes", "Platform ms",
    "Expense", "Expense(curr)", "Delta ms", "Tolerance">>

\* list.index: zero-based position of the first occurrence
index(list, x) ==
  (CHOOSE k \in 1..Len(list) :
      list[k] = x /\ \A j \in 1..(k-1) : list[j] # x) - 1

EXTRACT_POS == index(OLD_HEADLINE, "MA Time short")

INSERT_POS == index(OLD_HEADLINE, "Runtime ms") + 1

\* ------------------------------------------------------------- text, csv
\* quote(iter): every text wrapped into literal quote characters
quote(iter) ==
  [k \in 1..Len(iter) |-> <<QUOTE, iter[k], QUOTE>>]

RECURSIVE SplitFields(_, _)
SplitFields(line, cur) ==
  IF line = <<>> THEN <<cur>>
  ELSE IF Head(line) = DELIM
       THEN <<cur>> \o SplitFields(Tail(line), <<>>)
       ELSE SplitFields(Tail(line), Append(cur, Head(line)))

\* csv.reader(delimiter=',', quoting=QUOTE_NONE) on one line:
\* a blank line is the empty record, quotes are ordinary characters
ReadRecord(line) ==
  IF line = <<>> THEN <<>> ELSE SplitFields(line, <<>>)

\* list(csvReader) / next(csvReader) over all the lines of a file
ReadRecords(lines) ==
  [k \in 1..Len(lines) |-> ReadRecord(lines[k])]

RECURSIVE JoinFields(_)
JoinFields(row) ==
  IF row = <<>> THEN <<>>
  ELSE IF Len(row) = 1 THEN row[1]
  ELSE row[1] \o <<DELIM>> \o JoinFields(Tail(row))

\* csv.writer(delimiter=',', quotechar='', quoting=QUOTE_NONE).writerow
WriteRecord(row) == JoinFields(row)

\* faulty variant: the position taken as one-based
ListDelOneBased(line, pos) ==
  SubSeq(line, 1, pos - 1) \o SubSeq(line, pos + 1, Len(line))

\* del line[pos]   (pos zero-based, pos < len)
ListDel(line, pos) ==
  SubSeq(line, 1, pos) \o SubSeq(line, pos + 2, Len(line))

\* line.insert(pos, x)   (pos zero-based; beyond the end: append)
ListInsert(line, pos, x) ==
  LET at == IF pos > Len(line) THEN Len(line) ELSE pos
  IN  SubSeq(line, 1, at) \o <<x>> \o SubSeq(line, at + 1, Len(line))

\* faulty variant: inserted right at the position of "Runtime ms"
MoveColumnBefore(line) ==
  ListInsert(ListDel(line, EXTRACT_POS), INSERT_POS - 1, line[EXTRACT_POS + 1])

\* body of the row loop: extract, delete, insert
MoveColumn(line) ==
  ListInsert(ListDel(line, EXTRACT_POS), INSERT_POS, line[EXTRACT_POS + 1])

\* ------------------------------------------------------------ file names
Root == "top"

Subdirs(d) == IF d = "top" THEN <<"top/sub">> ELSE <<>>

join(d, f) == [dir |-> d, name |-> f]

\* faulty variant: every name passes the filter
fnmatchAll(name, pat) == Len(name) >= 0

\* fnmatch.filter(files, '*-runtime.csv'): the name ends with the literal
fnmatch(name, pat) ==
  LET lit == Tail(pat)
  IN  /\ Len(name) >= Len(lit)
      /\ SubSeq(name, Len(name) - Len(lit) + 1, Len(name)) = lit

\* file + '.tmp%d' % os.getpid()
TmpName(f, p) ==
  [dir |-> f.dir, name |-> f.name \o <<".tmp", ToString(p)>>]

NoPath == [dir |-> "", name |-> <<>>]

\* ------------------------------------------------------- trees on disk
\* a line as stored on disk: the texts, each in literal quotes, with commas
QuotedLine(texts) == JoinFields(quote(texts))

PlainLine(texts) == JoinFields([k \in 1..Len(texts) |-> <<texts[k]>>])

OldHeader == QuotedLine(OLD_HEADLINE)

NewHeader == QuotedLine(NEW_HEADLINE)

ExampleOld == <<"t0", "12", "100", "3", "11", "1.2", "1.1", "0.1", "5", "0.05">>

ExampleNew == <<"t0", "12", "5", "100", "3", "11", "1.2", "1.1", "0.1", "0.05">>

OtherOld == <<"t1", "7", "7", "0", "7", "1.0", "1.0", "0.0", "7", "0.05">>

GoodRows == {QuotedLine(ExampleOld), QuotedLine(OtherOld)}

RowSeqs(n) == UNION {[1..k -> GoodRows] : k \in 0..n}

\* old-format files with well-formed 10-field data records
WellFormedOld == {<<OldHeader>> \o rows : rows \in RowSeqs(MaxRows)}

\* old header, but a data record that has not 10 fields
RaggedOld ==
  { <<OldHeader, <<>>>>,
    <<OldHeader, QuotedLine(SubSeq(ExampleOld, 1, 9))>>,
    <<OldHeader, QuotedLine(ExampleOld \o <<"extra">>)>>,
    <<OldHeader, QuotedLine(ExampleOld), QuotedLine(<<"t2", "1", "2">>)>> }

Migrated == { <<NewHeader, QuotedLine(ExampleNew)>> }

Foreign ==
  { <<PlainLine(OLD_HEADLINE), QuotedLine(ExampleOld)>>,
    <<QuotedLine([OLD_HEADLINE EXCEPT ![3] = "Samples"]), QuotedLine(ExampleOld)>>,
    <<QuotedLine(SubSeq(OLD_HEADLINE, 1, 9)), QuotedLine(ExampleOld)>>,
    <<QuotedLine(OLD_HEADLINE \o <<"Extra">>), QuotedLine(ExampleOld)>>,
    <<<<>>, OldHeader, QuotedLine(ExampleOld)>> }

NoHeader == { <<>> }

Contents == WellFormedOld \cup RaggedOld \cup Migrated \cup Foreign \cup NoHeader

Pids == {7, 8}

FileA == join("top", <<"a", "-runtime.csv">>)

FileB == join("top", <<"b", "-runtime.csv">>)

FileC == join("top/sub", <<"c", "-runtime.csv">>)

Notes == join("top", <<"notes", ".csv">>)

Stale == TmpName(FileA, 7)

Maybe(f, cs) == {<<>>} \cup {f :> c : c \in cs}

\* in every tree: a file of another name, and a migrated file in the subdirectory
Others ==
  (Notes :> <<OldHeader, QuotedLine(ExampleOld)>>) @@ (FileC :> <<NewHeader>>)

\* one candidate of any content, or two candidates in one directory
InitTrees ==
  { (FileA :> ca) @@ Others @@ ft :
      ca \in Contents,
      ft \in Maybe(Stale, {<<QuotedLine(<<"junk">>)>>}) }
  \cup
  { (FileA :> ca) @@ (FileB :> <<OldHeader, QuotedLine(ExampleOld)>>) @@ Others @@ ft :
      ca \in {<<OldHeader, QuotedLine(ExampleOld)>>, <<>>},
      ft \in Maybe(Stale, {<<QuotedLine(<<"junk">>)>>}) }

\* ------------------------------------------------------------------ state
VARIABLES
  fs,        \* the tree: path -> lines, for the files that exist
  run,       \* number of launches so far
  pid,       \* os.getpid() of the running process
  pc,        \* position of the process
  exc,       \* exception that propagated out of the script, or "none"
  walk,      \* os.walk: directories still to list
  files,     \* scanSubtree: matching paths of the listed directory, not yet yielded
  file,      \* maybeMigrate: its argument
  content,   \* maybeMigrate: list(csvReader), the data records
  idx,       \* maybeMigrate: number of records the row loop has done
  newFile,   \* maybeMigrate: the temp path
  tmpOpen,   \* the temp file is open for writing
  console,   \* status lines printed in this run
  passed,    \* paths handed to maybeMigrate in this run
  listed,    \* matching paths found by the directory listings of this run
  fsops,     \* file system operations of this run that change the tree
  fsStart    \* the tree when this run was launched

vars == <<fs, run, pid, pc, exc, walk, files, file, content, idx, newFile,
          tmpOpen, console, passed, listed, fsops, fsStart>>

scanVars == <<walk, files, listed>>

callVars == <<file, content, idx, newFile>>

Init ==
  /\ fs \in InitTrees
  /\ fsStart = fs
  /\ run = 0
  /\ pid = 0
  /\ pc = "idle"
  /\ exc = "none"
  /\ walk = <<>>
  /\ files = <<>>
  /\ file = NoPath
  /\ content = <<>>
  /\ idx = 0
  /\ newFile = NoPath
  /\ tmpOpen = FALSE
  /\ console = <<>>
  /\ passed = <<>>
  /\ listed = {}
  /\ fsops = <<>>

Running == exc = "none"

print(msg, f) == Append(console, [msg |-> msg, file |-> f])

Op(op, f) == Append(fsops, [op |-> op, path |-> f])

\* os.remove
Remove(tree, f) == [q \in DOMAIN tree \ {f} |-> tree[q]]

\* os.rename (replaces the destination)
Rename(tree, src, dst) ==
  [q \in (DOMAIN tree \ {src}) \cup {dst} |->
      IF q = dst THEN tree[src] ELSE tree[q]]

\* all orders in which a directory listing may deliver the names
Orders(S) ==
  {o \in [1..Cardinality(S) -> S] : \A x \in S : \E k \in DOMAIN o : o[k] = x}

\* launchMigration, with a valid directory argument; a new process, a new pid
LaunchMigration ==
  /\ run < MaxRuns
  /\ pc \in {"idle", "exit"} \/ ~Running
  /\ run' = run + 1
  /\ pid' \in Pids \ {pid}
  /\ pc' = "scan"
  /\ exc' = "none"
  /\ walk' = <<Root>>
  /\ files' = <<>>
  /\ listed' = {}
  /\ file' = NoPath
  /\ content' = <<>>
  /\ idx' = 0
  /\ newFile' = NoPath
  /\ tmpOpen' = FALSE
  /\ console' = <<>>
  /\ passed' = <<>>
  /\ fsops' = <<>>
  /\ fsStart' = fs
  /\ UNCHANGED fs

\* scanSubtree: os.walk lists the next directory, fnmatch filters its files
ScanDir ==
  /\ Running /\ pc = "scan" /\ files = <<>> /\ walk # <<>>
  /\ LET d == Head(walk)
         names == {q.name : q \in {r \in DOMAIN fs : r.dir = d}}
         matching == {n \in names : fnmatch(n, SRCPATTERNS)}
     IN  /\ \E o \in Orders(matching) :
               files' = [k \in 1..Len(o) |-> join(d, o[k])]
         /\ listed' = listed \cup {join(d, n) : n \in matching}
         /\ walk' = Subdirs(d) \o Tail(walk)
  /\ UNCHANGED <<fs, run, pid, pc, exc, callVars, tmpOpen, console, passed,
                 fsops, fsStart>>

\* scanSubtree yields the next path, migrateRuntimeData calls maybeMigrate
ScanYield ==
  /\ Running /\ pc = "scan" /\ files # <<>>
  /\ file' = Head(files)
  /\ files' = Tail(files)
  /\ passed' = Append(passed, Head(files))
  /\ content' = <<>>
  /\ idx' = 0
  /\ newFile' = NoPath
  /\ pc' = "open"
  /\ UNCHANGED <<fs, run, pid, exc, walk, listed, tmpOpen, console, fsops,
                 fsStart>>

\* the walk is exhausted: launchMigration prints the final banner
ScanEnd ==
  /\ Running /\ pc = "scan" /\ files = <<>> /\ walk = <<>>
  /\ pc' = "exit"
  /\ UNCHANGED <<fs, run, pid, exc, scanVars, callVars, tmpOpen, console,
                 passed, fsops, fsStart>>

\* maybeMigrate, lines 74-95: read the header, classify, read the records
ReadAndClassify ==
  /\ Running /\ pc = "open"
  /\ LET records == IF file \in DOMAIN fs THEN ReadRecords(fs[file]) ELSE <<>>
     IN  IF file \notin DOMAIN fs
         THEN /\ exc' = "OSError"
              /\ UNCHANGED <<pc, console, content, newFile>>
         ELSE IF records = <<>>
         THEN /\ exc' = "StopIteration"
              /\ UNCHANGED <<pc, console, content, newFile>>
         ELSE LET headline == Head(records)
              IN  IF Len(headline) # Len(OLD_HEADLINE)
                  THEN /\ console' = print("format error", file)
                       /\ pc' = "scan"
                       /\ UNCHANGED <<exc, content, newFile>>
                  ELSE IF headline = quote(NEW_HEADLINE)
                  THEN /\ console' = print("skip", file)
                       /\ pc' = "scan"
                       /\ UNCHANGED <<exc, content, newFile>>
                  ELSE IF headline # quote(OLD_HEADLINE)
                  THEN /\ console' = print("mismatch", file)
                       /\ pc' = "scan"
                       /\ UNCHANGED <<exc, content, newFile>>
                  ELSE /\ content' = Tail(records)
                       /\ console' = print("MIG", file)
                       /\ newFile' = TmpName(file, pid)
                       /\ pc' = "exists"
                       /\ exc' = exc
  /\ UNCHANGED <<fs, run, pid, scanVars, file, idx, tmpOpen, passed, fsops,
                 fsStart>>

\* faulty variant: the stale temp file is not deleted
RemoveStaleSkipped ==
  /\ Running /\ pc = "exists"
  /\ pc' = "create"
  /\ UNCHANGED <<fs, fsops, run, pid, exc, scanVars, callVars, tmpOpen, console,
                 passed, fsStart>>

\* lines 96-97: a stale temp file of that name is deleted
RemoveStale ==
  /\ Running /\ pc = "exists"
  /\ IF newFile \in DOMAIN fs
     THEN fs' = Remove(fs, newFile) /\ fsops' = Op("remove", newFile)
     ELSE UNCHANGED <<fs, fsops>>
  /\ pc' = "create"
  /\ UNCHANGED <<run, pid, exc, scanVars, callVars, tmpOpen, console, passed,
                 fsStart>>

\* line 98: the temp file is created (or truncated) and opened for writing
CreateTmp ==
  /\ Running /\ pc = "create"
  /\ fs' = (newFile :> <<>>) @@ fs
  /\ fsops' = Op("create", newFile)
  /\ tmpOpen' = TRUE
  /\ pc' = "header"
  /\ UNCHANGED <<run, pid, exc, scanVars, callVars, console, passed, fsStart>>

\* line 103: the new headline is written (what is written counts as on disk
\* at once; nothing relies on the content of a temp file that is still open)
WriteHeader ==
  /\ Running /\ pc = "header"
  /\ fs' = [fs EXCEPT ![newFile] = Append(@, WriteRecord(quote(NEW_HEADLINE)))]
  /\ pc' = "rows"
  /\ UNCHANGED <<run, pid, exc, scanVars, callVars, tmpOpen, console, passed,
                 fsops, fsStart>>

\* lines 104-108: one turn of the row loop
WriteRow ==
  /\ Running /\ pc = "rows" /\ idx < Len(content)
  /\ LET line == content[idx + 1]
     IN  IF Len(line) <= EXTRACT_POS
         THEN /\ exc' = "IndexError"
              /\ tmpOpen' = FALSE
              /\ UNCHANGED <<fs, content, idx>>
         ELSE /\ content' = [content EXCEPT ![idx + 1] = MoveColumn(line)]
              /\ fs' = [fs EXCEPT ![newFile] =
                           Append(@, WriteRecord(MoveColumn(line)))]
              /\ idx' = idx + 1
              /\ UNCHANGED <<exc, tmpOpen>>
  /\ UNCHANGED <<run, pid, pc, scanVars, file, newFile, console, passed,
                 fsops, fsStart>>

\* faulty variant: the row loop may be left before the last record
CloseTmpEarly ==
  /\ Running /\ pc = "rows"
  /\ tmpOpen' = FALSE
  /\ pc' = "remove"
  /\ UNCHANGED <<fs, run, pid, exc, scanVars, callVars, console, passed,
                 fsops, fsStart>>

\* end of the with block: the temp file is closed
CloseTmp ==
  /\ Running /\ pc = "rows" /\ idx = Len(content)
  /\ tmpOpen' = FALSE
  /\ pc' = "remove"
  /\ UNCHANGED <<fs, run, pid, exc, scanVars, callVars, console, passed,
                 fsops, fsStart>>

\* line 109: the original is deleted
RemoveOrig ==
  /\ Running /\ pc = "remove"
  /\ fs' = Remove(fs, file)
  /\ fsops' = Op("remove", file)
  /\ pc' = "rename"
  /\ UNCHANGED <<run, pid, exc, scanVars, callVars, tmpOpen, console, passed,
                 fsStart>>

\* line 110: the temp file gets the name of the original
RenameTmp ==
  /\ Running /\ pc = "rename"
  /\ fs' = Rename(fs, newFile, file)
  /\ fsops' = Op("rename", newFile)
  /\ pc' = "scan"
  /\ UNCHANGED <<run, pid, exc, scanVars, callVars, tmpOpen, console, passed,
                 fsStart>>

\* a file system call of maybeMigrate raises OSError; nothing catches it
IOSteps == {"open", "create", "header", "rows", "remove", "rename"}

RaiseOSError ==
  /\ Running
  /\ pc \in IOSteps \/ (pc = "exists" /\ newFile \in DOMAIN fs)
  /\ exc' = "OSError"
  /\ tmpOpen' = FALSE
  /\ UNCHANGED <<fs, run, pid, pc, scanVars, callVars, console, passed,
                 fsops, fsStart>>

Next ==
  \/ LaunchMigration
  \/ ScanDir
  \/ ScanYield
  \/ ScanEnd
  \/ ReadAndClassify
  \/ RemoveStale
  \/ CreateTmp
  \/ WriteHeader
  \/ WriteRow
  \/ CloseTmp
  \/ RemoveOrig
  \/ RenameTmp
  \/ RaiseOSError

Spec == Init /\ [][Next]_vars

\* ------------------------------------------------------------ properties
Range(seq) == {seq[k] : k \in 1..Len(seq)}

\* the base name of the path is of the form *-runtime.csv
IsRuntimeCsv(f) == Len(f.name) > 0 /\ f.name[Len(f.name)] = "-runtime.csv"

\* the records of a file of a tree, as the reader delivers them
RecordsOf(tree, f) == ReadRecords(tree[f])

HasOldHeader(tree, f) ==
  /\ f \in DOMAIN tree
  /\ tree[f] # <<>>
  /\ RecordsOf(tree, f)[1] = quote(OLD_HEADLINE)

AllTenFields(tree, f) ==
  \A k \in 1..Len(tree[f]) : Len(RecordsOf(tree, f)[k]) = 10

\* the call of maybeMigrate for f has returned or was left by an exception
Finished(f) ==
  /\ f \in Range(passed)
  /\ f # file \/ pc \in {"scan", "exit"} \/ ~Running

\* the temp file of f has been renamed to f in this run
Replaced(f) == [op |-> "rename", path |-> TmpName(f, pid)] \in Range(fsops)

StatusOf(f) == SelectSeq(console, LAMBDA l : l.file = f)

\* a sequence without its element at (one-based) position i
Without(seq, i) ==
  [k \in 1..(Len(seq) - 1) |-> IF k < i THEN seq[k] ELSE seq[k + 1]]

Count(seq, v) == Cardinality({k \in 1..Len(seq) : seq[k] = v})

\* the new column order, position by position: new column k holds old column
NewOrder(r) ==
  [k \in 1..Len(r) |->
      IF k <= 2 THEN r[k]
      ELSE IF k = 3 THEN r[9]
      ELSE IF k <= 9 THEN r[k - 1]
      ELSE r[k]]

\* the file that has to replace an old-format file
Target(lines) ==
  [k \in 1..Len(lines) |->
      IF k = 1 THEN JoinFields(quote(NEW_HEADLINE))
      ELSE JoinFields(NewOrder(ReadRecord(lines[k])))]

\* operations of this run on the argument of the current call and its temp file
CallOps == SelectSeq(fsops, LAMBDA o : o.path \in {file, newFile})

InCall == pc \in {"exists", "create", "header", "rows", "remove", "rename"}

\* C1: a yielded file is rewritten if and only if its header is the quoted
\* OLD headline; any other file stays as it was, gets no temp file and exactly
\* one status line (format error / skip / mismatch), and the run goes on.
C1_Classification ==
  \A f \in Range(passed) :
    Finished(f) =>
      IF HasOldHeader(fsStart, f)
      THEN Replaced(f) /\ f \in DOMAIN fs /\ fs[f][1] = NewHeader
      ELSE /\ f \in DOMAIN fs /\ fs[f] = fsStart[f]
           /\ \A o \in Range(fsops) : o.path # TmpName(f, pid)
           /\ Running
           /\ LET head == IF fsStart[f] = <<>> THEN <<>>
                          ELSE RecordsOf(fsStart, f)[1]
                  expect == IF Len(head) # Len(OLD_HEADLINE) THEN "format error"
                            ELSE IF head = quote(NEW_HEADLINE) THEN "skip"
                            ELSE "mismatch"
              IN  StatusOf(f) = <<[msg |-> expect, file |-> f]>>

\* C2 (as stated): after the migration of a well-formed old file the header
\* is the quoted NEW headline, old column 8 is column 2, the other columns
\* between 2 and 8 are shifted left by one, columns 0, 1, 9 keep their place.
C2_ShiftLeft ==
  \A f \in DOMAIN fsStart :
    (Replaced(f) /\ HasOldHeader(fsStart, f) /\ AllTenFields(fsStart, f)) =>
      /\ f \in DOMAIN fs
      /\ Len(fs[f]) = Len(fsStart[f])
      /\ RecordsOf(fs, f)[1] = quote(NEW_HEADLINE)
      /\ \A k \in 2..Len(fsStart[f]) :
           LET old == RecordsOf(fsStart, f)[k]
               new == RecordsOf(fs, f)[k]
           IN  /\ Len(new) = 10
               /\ new[3] = old[9]
               /\ \A i \in 3..8 : new[i - 1] = old[i]
               /\ new[1] = old[1] /\ new[2] = old[2] /\ new[10] = old[10]

\* C2 (amended): ... old column 8 is column 2, the old columns 2..7 are
\* shifted right by one to the columns 3..8, columns 0, 1, 9 keep their place.
C2_ShiftRight ==
  \A f \in DOMAIN fsStart :
    (Replaced(f) /\ HasOldHeader(fsStart, f) /\ AllTenFields(fsStart, f)) =>
      /\ f \in DOMAIN fs
      /\ Len(fs[f]) = Len(fsStart[f])
      /\ RecordsOf(fs, f)[1] = quote(NEW_HEADLINE)
      /\ \A k \in 2..Len(fsStart[f]) :
           LET old == RecordsOf(fsStart, f)[k]
               new == RecordsOf(fs, f)[k]
           IN  /\ Len(new) = 10
               /\ new[3] = old[9]
               /\ \A i \in 3..8 : new[i + 1] = old[i]
               /\ new[1] = old[1] /\ new[2] = old[2] /\ new[10] = old[10]

C2_Witness ==
  /\ FileA \in DOMAIN fs /\ Replaced(FileA)
  /\ fsStart[FileA] = <<OldHeader, QuotedLine(OtherOld), QuotedLine(ExampleOld)>>
  /\ fs[FileA] = <<NewHeader,
                   QuotedLine(<<"t1", "7", "7", "7", "0", "7", "1.0", "1.0", "0.0", "0.05">>),
                   QuotedLine(ExampleNew)>>

\* C3: the row loop turns a 10-field record into a record of the same length
\* that is a permutation of it, has old column 8 at column 2 and the other
\* fields in their old relative order; the example row becomes the example
\* result; a replaced file has as many records as before, in the same order.
C3_RowTransform ==
  /\ (pc = "rows" /\ file \in DOMAIN fs) =>
       \A j \in 1..idx :
         LET old == ReadRecord(fs[file][j + 1])
             new == content[j]
         IN  Len(old) = 10 =>
               /\ Len(new) = Len(old)
               /\ \A v \in Range(old) \cup Range(new) : Count(new, v) = Count(old, v)
               /\ new[INSERT_POS + 1] = old[EXTRACT_POS + 1]
               /\ Without(new, INSERT_POS + 1) = Without(old, EXTRACT_POS + 1)
               /\ (old = quote(ExampleOld) => new = quote(ExampleNew))
  /\ \A f \in DOMAIN fsStart :
       Replaced(f) =>
         /\ f \in DOMAIN fs
         /\ Len(fs[f]) = Len(fsStart[f])
         /\ \A k \in 2..Len(fsStart[f]) :
              Without(RecordsOf(fs, f)[k], 3) = Without(RecordsOf(fsStart, f)[k], 9)

C3_Witness ==
  /\ pc = "rows" /\ idx = 2 /\ Running
  /\ ReadRecord(fs[file][2]) = quote(ExampleOld)
  /\ content[1] = quote(ExampleNew)

\* C4: a second run in succession touches nothing: no file is rewritten,
\* deleted or renamed and no temp file is created, the tree stays as the
\* first run left it, and every file is classified as already migrated.
C4_Idempotent ==
  run = 2 =>
    /\ fsops = <<>>
    /\ fs = fsStart
    /\ \A k \in 1..Len(console) : console[k].msg = "skip"

\* C5: a failure while one file is handled does not halt the run: every file
\* the scanner has still to yield is passed to maybeMigrate.
C5_RunGoesOn ==
  ~Running =>
    /\ files = <<>>
    /\ \A f \in DOMAIN fs : IsRuntimeCsv(f) => f.dir \notin Range(walk)

\* C6: for a file with a record (header or data) that has not 10 fields no
\* temp file is created and no row is transformed.
C6_LengthChecked ==
  \A f \in Range(passed) :
    (f \in DOMAIN fsStart /\ ~AllTenFields(fsStart, f)) =>
      /\ [op |-> "create", path |-> TmpName(f, pid)] \notin Range(fsops)
      /\ f = file => idx = 0

\* C7: the steps of the replacement come in this order: delete a stale temp
\* file, create the temp file and write all records, delete the original,
\* rename the temp file; the original is missing only when the next
\* statement is the rename that directly follows the deletion.
C7_ReplaceOrder ==
  LET stale == IF newFile \in DOMAIN fsStart
               THEN <<[op |-> "remove", path |-> newFile]>> ELSE <<>>
      full  == stale \o <<[op |-> "create", path |-> newFile],
                          [op |-> "remove", path |-> file],
                          [op |-> "rename", path |-> newFile]>>
      done  == CASE pc = "exists" -> 0
                 [] pc = "create" -> Len(stale)
                 [] pc \in {"header", "rows", "remove"} -> Len(stale) + 1
                 [] pc = "rename" -> Len(stale) + 2
                 [] OTHER -> Len(stale) + 3
      written == pc \in {"remove", "rename"} \/ (newFile # NoPath /\ ~InCall)
  IN  /\ newFile # NoPath => CallOps = SubSeq(full, 1, done)
      /\ (newFile # NoPath /\ written) =>
           LET tmp == IF pc \in {"remove", "rename"} THEN newFile ELSE file
           IN  /\ ~tmpOpen
               /\ tmp \in DOMAIN fs
               /\ Len(fs[tmp]) = 1 + Len(content)
               /\ fs[tmp][1] = NewHeader
      /\ ((InCall \/ pc = "open") /\ file \notin DOMAIN fs) =>
           /\ pc = "rename"
           /\ fsops[Len(fsops)] = [op |-> "remove", path |-> file]

C7_Witness ==
  /\ pc = "rename" /\ Running
  /\ file = FileA /\ newFile = Stale /\ Stale \in DOMAIN fsStart
  /\ FileA \notin DOMAIN fs
  /\ Len(content) = 2

\* C8 (as stated): a file whose name does not match *-runtime.csv is never
\* opened for writing, deleted or overwritten during a run.
C8_NonMatchingUntouched ==
  \A f \in DOMAIN fsStart :
    ~IsRuntimeCsv(f) =>
      /\ f \in DOMAIN fs /\ fs[f] = fsStart[f]
      /\ \A o \in Range(fsops) : o.path # f

\* C8 (amended): ... unless its path is the temp path '<file>.tmp<pid>' of a
\* matching file with the quoted OLD headline: that stale file is deleted
\* and written anew.
C8_NonMatchingButStale ==
  \A f \in DOMAIN fsStart :
    (/\ ~IsRuntimeCsv(f)
     /\ ~\E g \in DOMAIN fsStart :
           /\ f = TmpName(g, pid)
           /\ IsRuntimeCsv(g)
           /\ HasOldHeader(fsStart, g)) =>
      /\ f \in DOMAIN fs /\ fs[f] = fsStart[f]
      /\ \A o \in Range(fsops) : o.path # f

C8_Witness ==
  /\ pid = 8 /\ Replaced(FileA) /\ Replaced(FileB)
  /\ Stale \in DOMAIN fs /\ fs[Stale] = fsStart[Stale]
  /\ Notes \in DOMAIN fs /\ fs[Notes] = fsStart[Notes] /\ HasOldHeader(fs, Notes)

\* C9: at every point the complete data of an old-format file is on disk:
\* the original under its name, or the complete new file under that name,
\* or, the original being deleted, the complete new file, closed, under the
\* temp name; when the transformation or a write has failed the original is
\* still there, unmodified.
C9_DataOnDisk ==
  /\ \A f \in DOMAIN fsStart :
       IsRuntimeCsv(f) =>
          \/ f \in DOMAIN fs /\ fs[f] = fsStart[f]
          \/ ~HasOldHeader(fsStart, f)
          \/ f \in DOMAIN fs /\ fs[f] = Target(fsStart[f])
          \/ /\ f \notin DOMAIN fs
             /\ TmpName(f, pid) \in DOMAIN fs
             /\ fs[TmpName(f, pid)] = Target(fsStart[f])
             /\ ~tmpOpen
  /\ (~Running /\ pc \in {"exists", "create", "header", "rows", "remove"}) =>
       (file \in DOMAIN fs /\ fs[file] = fsStart[file])

C9_Witness ==
  /\ ~Running /\ exc = "OSError" /\ pc = "rename"
  /\ FileA \notin DOMAIN fs
  /\ fs[TmpName(FileA, pid)] = <<NewHeader, QuotedLine(ExampleNew)>>

\* C10: in one run every matching file that is there when its directory is
\* listed is passed to maybeMigrate exactly once, and no file the run itself
\* creates or renames is yielded as a further candidate.
C10_EachOnce ==
  /\ \A j, k \in 1..Len(passed) : passed[j] = passed[k] => j = k
  /\ \A f \in Range(passed) : f \in listed /\ f \in DOMAIN fsStart
  /\ \A f \in Range(files) : f \notin Range(passed)
  /\ (pc = "exit" \/ ~Running) =>
       \A f \in DOMAIN fsStart :
         IsRuntimeCsv(f) => f \in Range(passed)

====
